---- MODULE Spec2Model ----
(***************************************************************************)
(* Model of the two batch notebooks of the hyperspectral pipeline:         *)
(*   - hsi_calibration_automated.ipynb   (process_directory and helpers)   *)
(*   - hsi_spectral_extraction_automated (process_image and its os.walk    *)
(*     driver loop)                                                        *)
(*                                                                         *)
(* One behaviour is one run of one notebook (nb), for the calibration      *)
(* notebook followed by a second run on the same root, or one application  *)
(* of a pure function to one input (nb = "function").                      *)
(*                                                                         *)
(* Numbers.  Raw digital numbers are integers.  A float produced by the    *)
(* code is an exact rational or one of the IEEE specials:                  *)
(*   [k |-> "fin", n, d]  the rational n/d (d > 0)                         *)
(*   [k |-> "nan"], [k |-> "inf"], [k |-> "ninf"]                          *)
(* float32 rounding is not modelled.  Reflectances read by the extractor   *)
(* are integers in ticks of 1/Ticks, NaN being the value NaN.              *)
(***************************************************************************)
EXTENDS Integers, Sequences, FiniteSets, TLC

VARIABLES
    nb,       \* "calibration" | "recalibration" | "extraction" | "function":
              \* what this run is
    walk,     \* os.walk order: directories (calibration) or files (extraction)
    pos,      \* index in walk of the next entry the driver loop visits
    status,   \* "walking" | "done" | "aborted" (an exception left the loop)
    log,      \* one record per entry visited so far, in order
    written,  \* set of [path, by]: output path this run wrote and index of
              \* its image
    rng,      \* state of the process-global generator np.random
    params,   \* arguments the extraction driver passes to process_image;
              \* in a second calibration run, what the first run did
    fnIn,     \* input of the pure function applied (nb = "function")
    fnOut     \* its result, <<>> before it is applied

vars == <<nb, walk, pos, status, log, written, rng, params, fnIn, fnOut>>

----------------------------------------------------------------------------
(* Bounds of the model *)

MaxDirs == 2      \* directories in one calibration walk
MaxImages == 2    \* files in one extraction walk
MaxDN == 2        \* largest raw digital number of a pixel
MaxRefl == 3      \* largest reflectance (ticks) of the single-pixel cubes
BigSide == 6      \* rows = columns of the large cube
Ticks == 100      \* reflectance resolution: value v stands for v / Ticks
MaxBands == 3     \* longest wavelength list given to the band selection
MaxRows == 2      \* rows of a spectral table given to the quality filter

(* Program constants *)

Target751 == 751          \* wavelength of the biomass band
Target676 == 676          \* wavelength of the reference band
Seed == 42                \* np.random.seed(42), random_state=42
SamplePercent == 3        \* 0.03 in int(len(averaged_df_shuffled) * 0.03)
DriverGroupSize == 20     \* group_size=20 passed by the driver loop

NaN == 0 - 1              \* the NaN reflectance of the extractor's cubes
None == 0 - 2             \* Python's None (group_size=None)

----------------------------------------------------------------------------
(* Floats of the calibrator *)

Fin(n, d) == [k |-> "fin", n |-> n, d |-> d]
NaNF == [k |-> "nan", n |-> 0, d |-> 0]
PosInf == [k |-> "inf", n |-> 0, d |-> 0]
NegInf == [k |-> "ninf", n |-> 0, d |-> 0]

Abs(x) == IF x < 0 THEN 0 - x ELSE x

RECURSIVE GCD(_, _)
GCD(a, b) == IF b = 0 THEN a ELSE GCD(b, a % b)

\* the rational n/d (d # 0) in lowest terms with a positive denominator
Rational(n, d) ==
    LET g == GCD(Abs(n), Abs(d))
        sgn == IF d > 0 THEN 1 ELSE 0 - 1
    IN  Fin(sgn * (n \div g), sgn * (d \div g))

\* IEEE division of two integers held as floats.
Divide(n, d) ==
    IF d = 0
    THEN (IF n = 0 THEN NaNF ELSE IF n > 0 THEN PosInf ELSE NegInf)
    ELSE Rational(n, d)

\* np.clip(x, 0, 1) = minimum(maximum(x, 0), 1); NaN propagates.
Clip01(x) ==
    CASE x.k = "nan"  -> NaNF
      [] x.k = "inf"  -> Fin(1, 1)
      [] x.k = "ninf" -> Fin(0, 1)
      [] OTHER -> IF x.n < 0 THEN Fin(0, 1)
                  ELSE IF x.n > x.d THEN Fin(1, 1) ELSE x

InUnitInterval(x) == x.k = "fin" /\ 0 <= x.n /\ x.n <= x.d

----------------------------------------------------------------------------
(* Calibration cubes.  A cube is [shape |-> <<rows, cols, bands>>,         *)
(* dn |-> <<v_1 .. v_bands>>]: spatially uniform, one value per band, so   *)
(* that order-1 resampling along rows and columns leaves the values as     *)
(* they are.                                                               *)

Max(a, b) == IF a >= b THEN a ELSE b

\* numpy broadcasting of two shapes: every axis equal, or 1 on one side.
Broadcastable(s, t) ==
    \A i \in 1..3 : s[i] = t[i] \/ s[i] = 1 \/ t[i] = 1

BroadcastShape(s, t) == [i \in 1..3 |-> Max(s[i], t[i])]

\* value of band b of a cube seen through broadcasting
BandValue(cube, b) == IF cube.shape[3] = 1 THEN cube.dn[1] ELSE cube.dn[b]

\* resize_hyperspectral_image: zoom by (t0/s0, t1/s1, 1); the output extent
\* of zoom is round(extent * factor), the band axis is left as it is.
resize_hyperspectral_image(image, target_shape) ==
    [shape |-> <<target_shape[1], target_shape[2], image.shape[3]>>,
     dn |-> image.dn]

\* apply_calibration: (raw - dark) / (white - dark), then np.clip(., 0, 1).
\* The two subtractions and the division broadcast; shapes that do not
\* broadcast raise ValueError.
apply_calibration(raw_image, white_ref, dark_ref) ==
    IF ~ ( Broadcastable(raw_image.shape, dark_ref.shape)
           /\ Broadcastable(white_ref.shape, dark_ref.shape)
           /\ Broadcastable(BroadcastShape(raw_image.shape, dark_ref.shape),
                            BroadcastShape(white_ref.shape, dark_ref.shape)) )
    THEN [error |-> "ValueError", shape |-> <<0, 0, 0>>, val |-> <<>>]
    ELSE LET shape == BroadcastShape(
                          BroadcastShape(raw_image.shape, dark_ref.shape),
                          BroadcastShape(white_ref.shape, dark_ref.shape))
         IN [error |-> "none",
             shape |-> shape,
             val |-> [b \in 1..shape[3] |->
                        Clip01(Divide(
                            BandValue(raw_image, b) - BandValue(dark_ref, b),
                            BandValue(white_ref, b) - BandValue(dark_ref, b)))]]

----------------------------------------------------------------------------
(* Files of a calibration directory.  A file name is marker + stem + ext:  *)
(* "WHITEREF_003.hdr" is [marker |-> "WHITEREF", stem |-> "003",           *)
(* ext |-> "hdr"]; the raw capture "003.hdr" has marker "".  cube is what  *)
(* the file holds.                                                         *)

Cube(shape, v) == [shape |-> shape, dn |-> [b \in 1..shape[3] |-> v]]

File(marker, stem, ext, cube) ==
    [marker |-> marker, stem |-> stem, ext |-> ext, cube |-> cube]

\* f.endswith(".hdr") and "WHITEREF" not in f and "DARKREF" not in f
IsRawImageFile(f) ==
    f.ext = "hdr" /\ f.marker # "WHITEREF" /\ f.marker # "DARKREF"

IsWhiteRefFile(f) == f.marker = "WHITEREF"     \* "WHITEREF" in f

IsDarkRefFile(f) == f.marker = "DARKREF"       \* "DARKREF" in f

HasRole(f, role) ==
    CASE role = "raw"   -> IsRawImageFile(f)
      [] role = "white" -> IsWhiteRefFile(f)
      [] role = "dark"  -> IsDarkRefFile(f)

\* the first file of the role, and the first file of the directory when no
\* file has the role
FirstMatchOrFirst(files, role) ==
    IF \E i \in DOMAIN files : HasRole(files[i], role)
    THEN CHOOSE i \in DOMAIN files :
             /\ HasRole(files[i], role)
             /\ \A j \in 1..(i - 1) : ~ HasRole(files[j], role)
    ELSE IF files = <<>> THEN 0 ELSE 1

\* next((f for f in files if ...), None): index of the first file of the
\* role, 0 for None
FirstMatch(files, role) ==
    IF \E i \in DOMAIN files : HasRole(files[i], role)
    THEN CHOOSE i \in DOMAIN files :
             /\ HasRole(files[i], role)
             /\ \A j \in 1..(i - 1) : ~ HasRole(files[j], role)
    ELSE 0

\* load_hyperspectral_image: spectral.open_image(path).load() reads a header;
\* handed a data file it raises.
Loadable(f) == f.ext = "hdr"

\* save_hyperspectral_image: the two files envi.save_image writes under
\* <root>/calibrated/<image_name>/
CalibratedPaths(image_name) ==
    { [dir |-> <<"calibrated", image_name>>,
       file |-> <<image_name, "_calibrated.hdr">>],
      [dir |-> <<"calibrated", image_name>>,
       file |-> <<image_name, "_calibrated.img">>] }

NoCube == [error |-> "none", shape |-> <<0, 0, 0>>, val |-> <<>>]

\* The body of the for loop of process_directory for one directory whose
\* three files were found, up to and including apply_calibration.
CalibrateDirectory(files) ==
    LET raw_image_file == files[FirstMatch(files, "raw")]
        white_ref_file == files[FirstMatch(files, "white")]
        dark_ref_file == files[FirstMatch(files, "dark")]
        base == [outcome |-> "raised", error |-> "IOError",
                 loaded |-> <<>>, raw_shape |-> <<0, 0, 0>>,
                 white_shape |-> <<0, 0, 0>>, dark_shape |-> <<0, 0, 0>>,
                 calibrated |-> NoCube, image_name |-> raw_image_file.stem,
                 saved |-> FALSE]
    IN  IF ~ Loadable(raw_image_file) THEN base
        ELSE IF ~ Loadable(white_ref_file)
        THEN [base EXCEPT !.loaded = <<raw_image_file>>]
        ELSE IF ~ Loadable(dark_ref_file)
        THEN [base EXCEPT !.loaded = <<raw_image_file, white_ref_file>>]
        ELSE
        LET raw_image == raw_image_file.cube
            white_ref == IF white_ref_file.cube.shape # raw_image.shape
                         THEN resize_hyperspectral_image(white_ref_file.cube,
                                                         raw_image.shape)
                         ELSE white_ref_file.cube
            dark_ref == IF dark_ref_file.cube.shape # raw_image.shape
                        THEN resize_hyperspectral_image(dark_ref_file.cube,
                                                        raw_image.shape)
                        ELSE dark_ref_file.cube
            calibrated_image == apply_calibration(raw_image, white_ref, dark_ref)
        IN  [base EXCEPT
                !.loaded = <<raw_image_file, white_ref_file, dark_ref_file>>,
                !.raw_shape = raw_image.shape,
                !.white_shape = white_ref.shape,
                !.dark_shape = dark_ref.shape,
                !.calibrated = calibrated_image,
                !.error = calibrated_image.error,
                !.outcome = IF calibrated_image.error = "none"
                            THEN "calibrated" ELSE "raised"]

SkippedDirectory ==
    [outcome |-> "skipped", error |-> "none", loaded |-> <<>>,
     raw_shape |-> <<0, 0, 0>>, white_shape |-> <<0, 0, 0>>,
     dark_shape |-> <<0, 0, 0>>, calibrated |-> NoCube, image_name |-> "",
     saved |-> FALSE]

\* if raw_image_file and white_ref_file and dark_ref_file
HasAllThree(files) ==
    /\ FirstMatch(files, "raw") # 0
    /\ FirstMatch(files, "white") # 0
    /\ FirstMatch(files, "dark") # 0

----------------------------------------------------------------------------
(* process_directory: one step per directory of os.walk.  The notebook is  *)
(* run once ("calibration") and may then be run again on the same root     *)
(* ("recalibration"), where os.walk also finds what the first run wrote.   *)

CalNotebooks == {"calibration", "recalibration"}

\* A directory lacking one of the three files: nothing is done for it.
CalSkipDirectory ==
    /\ nb \in CalNotebooks /\ status = "walking" /\ pos <= Len(walk)
    /\ ~ HasAllThree(walk[pos])
    /\ log' = Append(log, SkippedDirectory)
    /\ pos' = pos + 1
    /\ UNCHANGED <<nb, walk, status, written, rng, params, fnIn, fnOut>>

\* A directory with the three files: load, resize, calibrate, save.  An
\* exception of load or of apply_calibration leaves the loop (no handler in
\* process_directory); an exception of envi.save_image is caught and printed
\* by save_hyperspectral_image, and the loop goes on.  The notebook never
\* imports the name envi: in a fresh kernel the call raises NameError, which
\* that handler swallows (saved = FALSE); in a kernel where the name is
\* bound the two files are written (saved = TRUE).
CalProcessDirectory ==
    /\ nb \in CalNotebooks /\ status = "walking" /\ pos <= Len(walk)
    /\ HasAllThree(walk[pos])
    /\ LET r == CalibrateDirectory(walk[pos])
       IN  IF r.outcome = "raised"
           THEN /\ log' = Append(log, r)
                /\ status' = "aborted"
                /\ UNCHANGED <<pos, written>>
           ELSE \E saved \in BOOLEAN :
                /\ log' = Append(log, [r EXCEPT !.saved = saved])
                /\ written' = IF saved
                              THEN written \cup
                                   { [path |-> p, by |-> pos] :
                                       p \in CalibratedPaths(r.image_name) }
                              ELSE written
                /\ pos' = pos + 1
                /\ UNCHANGED status
    /\ UNCHANGED <<nb, walk, rng, params, fnIn, fnOut>>

\* os.walk is exhausted: process_directory returns.
CalWalkEnd ==
    /\ nb \in CalNotebooks /\ status = "walking" /\ pos > Len(walk)
    /\ status' = "done"
    /\ UNCHANGED <<nb, walk, pos, log, written, rng, params, fnIn, fnOut>>

----------------------------------------------------------------------------
(* Inputs of the calibration walk *)

DefaultShape == <<2, 2, 2>>

RefShapes == { <<2, 2, 2>>, <<1, 3, 2>>, <<2, 2, 1>>, <<2, 2, 3>> }

Stems == {"a", "b"}

Presence(present, stem) ==
    <<File("", stem, "raw", Cube(DefaultShape, 1))>>
    \o (IF "raw" \in present
        THEN <<File("", stem, "hdr", Cube(DefaultShape, 1))>> ELSE <<>>)
    \o (IF "white" \in present
        THEN <<File("WHITEREF", stem, "hdr", Cube(DefaultShape, 2))>> ELSE <<>>)
    \o (IF "dark" \in present
        THEN <<File("DARKREF", stem, "hdr", Cube(DefaultShape, 0))>> ELSE <<>>)

\* the data file of the white reference listed before its header
DataFileFirst ==
    << File("", "a", "hdr", Cube(DefaultShape, 1)),
       File("WHITEREF", "a", "raw", Cube(DefaultShape, 2)),
       File("WHITEREF", "a", "hdr", Cube(DefaultShape, 2)),
       File("DARKREF", "a", "hdr", Cube(DefaultShape, 0)) >>

Shaped(ws, ds) ==
    << File("", "a", "hdr", Cube(DefaultShape, 1)),
       File("WHITEREF", "a", "hdr", Cube(ws, 2)),
       File("DARKREF", "a", "hdr", Cube(ds, 0)) >>

CalDirs ==
    { Presence(p, s) : p \in SUBSET {"raw", "white", "dark"}, s \in Stems }
    \cup { DataFileFirst }
    \cup { Shaped(ws, DefaultShape) : ws \in RefShapes }
    \cup { Shaped(DefaultShape, ds) : ds \in RefShapes }

SeqsUpTo(S, n) == UNION { [1..k -> S] : k \in 0..n }

NoParams == [group_size |-> None]

NoInput == [fn |-> "none"]

NotApplied == [done |-> FALSE, value |-> <<>>]

InitCal ==
    /\ nb = "calibration"
    /\ walk \in SeqsUpTo(CalDirs, MaxDirs)
    /\ pos = 1 /\ status = "walking" /\ log = <<>> /\ written = {}
    /\ rng = 0 /\ params = NoParams /\ fnIn = NoInput /\ fnOut = NotApplied

----------------------------------------------------------------------------
(* A second run of process_directory on the same root *)

\* f"{image_name}_calibrated": the stem of the two files save_image writes
CalibratedStem(image_name) ==
    IF image_name = "a" THEN "a_calibrated"
    ELSE IF image_name = "b" THEN "b_calibrated"
    ELSE image_name

\* <root>/calibrated/<image_name>/ as save_hyperspectral_image leaves it:
\* the header and the data file of the calibrated cube
OutputDirectory(image_name, calibrated) ==
    LET cube == [shape |-> calibrated.shape, dn |-> calibrated.val]
    IN  << File("", CalibratedStem(image_name), "hdr", cube),
           File("", CalibratedStem(image_name), "img", cube) >>

StemOrder == <<"a", "b">>

\* what a run leaves under <root>/calibrated: the directory itself, which
\* holds no file, then one directory per image name it called
\* save_hyperspectral_image for (os.makedirs comes before the try), holding
\* the cube saved last under that name (force=True overwrites), or nothing
\* when no save under that name succeeded
OutputTree(l) ==
    LET calledAt(name) ==
            { i \in DOMAIN l :
                l[i].outcome = "calibrated" /\ l[i].image_name = name }
        savedAt(name) == { i \in calledAt(name) : l[i].saved }
        last(name) ==
            CHOOSE i \in savedAt(name) : \A j \in savedAt(name) : j <= i
        names == SelectSeq(StemOrder, LAMBDA name : calledAt(name) # {})
    IN  IF Len(names) = 0 THEN <<>>
        ELSE << <<>> >>
             \o [k \in DOMAIN names |->
                    IF savedAt(names[k]) = {} THEN <<>>
                    ELSE OutputDirectory(names[k],
                                         l[last(names[k])].calibrated)]

\* the directories of the roots on which the second run is followed: two
\* complete ones, one without references, one whose white reference has
\* one band more than the raw image
RerunDirs ==
    { Presence({"raw", "white", "dark"}, "a"),
      Presence({"raw", "white", "dark"}, "b"),
      Presence({"raw"}, "b"),
      Shaped(<<2, 2, 3>>, DefaultShape) }

\* process_directory is called again on the same root: os.walk lists the
\* directories of the first run and, somewhere among them, the output
\* tree.  params keeps what the first run visited and did.
CalRunAgain ==
    /\ nb = "calibration" /\ status \in {"done", "aborted"}
    /\ nb' = "recalibration"
    /\ \A i \in DOMAIN walk : walk[i] \in RerunDirs
    /\ \E k \in 0..Len(walk) :
           walk' = SubSeq(walk, 1, k) \o OutputTree(log)
                   \o SubSeq(walk, k + 1, Len(walk))
    /\ params' = [group_size |-> None, first_walk |-> walk,
                  first_log |-> log, first_written |-> written]
    /\ pos' = 1 /\ status' = "walking" /\ log' = <<>> /\ written' = {}
    /\ UNCHANGED <<rng, fnIn, fnOut>>

----------------------------------------------------------------------------
(* process_image.  A calibrated cube is [rows, cols, data] with            *)
(* data[r][c] the spectrum of pixel (r, c): one reflectance per band, in   *)
(* ticks of 1/Ticks, or NaN.  A threshold is a rational [n, d].            *)

\* a scan that also moves to a later element equal to the smallest so far
RECURSIVE ScanLast(_, _, _)
ScanLast(seq, i, best) ==
    IF i > Len(seq) THEN best
    ELSE ScanLast(seq, i + 1, IF seq[i] <= seq[best] THEN i ELSE best)

ArgMinLast(seq) == ScanLast(seq, 2, 1)

\* the scan of np.argmin: an element replaces the smallest so far only when
\* it is strictly smaller
RECURSIVE Scan(_, _, _)
Scan(seq, i, best) ==
    IF i > Len(seq) THEN best
    ELSE Scan(seq, i + 1, IF seq[i] < seq[best] THEN i ELSE best)

\* np.argmin: index of the first occurrence of the minimum
ArgMin(seq) == Scan(seq, 2, 1)

\* int(np.argmin(np.abs(wavelengths - target)))
NearestBand(wavelengths, target) ==
    ArgMin([i \in DOMAIN wavelengths |-> Abs(wavelengths[i] - target)])

\* img[r, c, band751] / img[r, c, band676] in IEEE arithmetic
Ratio(a, b) == IF a = NaN \/ b = NaN THEN NaNF ELSE Divide(a, b)

\* x >= threshold
GreaterOrEqual(x, threshold) ==
    CASE x.k = "nan"  -> FALSE
      [] x.k = "inf"  -> TRUE
      [] x.k = "ninf" -> FALSE
      [] OTHER -> x.n * threshold.d >= threshold.n * x.d

\* x > threshold in IEEE arithmetic: false for NaN, true for +inf
GreaterThan(x, threshold) ==
    CASE x.k = "nan"  -> FALSE
      [] x.k = "inf"  -> TRUE
      [] x.k = "ninf" -> FALSE
      [] OTHER -> x.n * threshold.d > threshold.n * x.d

\* mask = ratio_image > threshold
Mask(img, wavelengths, threshold) ==
    LET wavelength_751_index == NearestBand(wavelengths, Target751)
        wavelength_676_index == NearestBand(wavelengths, Target676)
    IN  [r \in 1..img.rows |-> [c \in 1..img.cols |->
            GreaterThan(Ratio(img.data[r][c][wavelength_751_index],
                              img.data[r][c][wavelength_676_index]),
                        threshold)]]

\* the true pixels column by column
ArgWhereColumnMajor(mask, rows, cols) ==
    SelectSeq([k \in 1..(rows * cols) |->
                  <<((k - 1) % rows) + 1, ((k - 1) \div rows) + 1>>],
              LAMBDA p : mask[p[1]][p[2]])

\* np.argwhere(mask): the true pixels in row-major order
ArgWhere(mask, rows, cols) ==
    SelectSeq([k \in 1..(rows * cols) |->
                  <<((k - 1) \div cols) + 1, ((k - 1) % cols) + 1>>],
              LAMBDA p : mask[p[1]][p[2]])

\* np.count_nonzero(mask)
CountNonzero(mask, rows, cols) ==
    Cardinality({ p \in (1..rows) \X (1..cols) : mask[p[1]][p[2]] })

RECURSIVE SumSeq(_)
SumSeq(s) == IF s = <<>> THEN 0 ELSE Head(s) + SumSeq(Tail(s))

NotNaN(v) == v # NaN

\* row_means > quality_filter_threshold
RowMeanAbove(row, q) ==
    LET vals == SelectSeq(row, NotNaN)
    IN  /\ Len(vals) > 0
        /\ SumSeq(vals) * q.d > q.n * Len(vals) * Ticks

\* row_means >= quality_filter_threshold, the mean skipping NaN (pandas
\* skipna); the mean of no value is NaN and compares false.
RowMeanAtLeast(row, q) ==
    LET vals == SelectSeq(row, NotNaN)
    IN  /\ Len(vals) > 0
        /\ SumSeq(vals) * q.d >= q.n * Len(vals) * Ticks

\* df[row_means >= quality_filter_threshold].reset_index(drop=True)
QualityFilter(df, q) == SelectSeq(df, LAMBDA row : RowMeanAtLeast(row, q))

\* block.mean(axis=0): per-column mean of the rows of a block, skipping NaN
ColumnMeans(block, nbands) ==
    [b \in 1..nbands |->
        LET vals == SelectSeq([i \in DOMAIN block |-> block[i][b]], NotNaN)
        IN  Divide(SumSeq(vals), Len(vals))]

(* The generator.  The Mersenne Twister of numpy is modelled by a full     *)
(* period congruential generator: what matters is that a permutation is a  *)
(* function of the state it is drawn from, and that drawing advances it.   *)

NextState(s) == (s * 5 + 3) % 1024

SeedState(seed) == seed % 1024             \* np.random.seed(seed)

Swap(x, i, j) == [x EXCEPT ![i] = x[j], ![j] = x[i]]

\* the shuffle of permutation(n): for i = n .. 2, swap x[i] with x[j],
\* j drawn in 1..i
RECURSIVE Shuffle(_, _, _)
Shuffle(x, i, s) ==
    IF i < 2 THEN [perm |-> x, state |-> s]
    ELSE LET s2 == NextState(s)
             j == ((s2 \div 8) % i) + 1
         IN  Shuffle(Swap(x, i, j), i - 1, s2)

Permutation(n, s) == Shuffle([k \in 1..n |-> k], n, s)

\* the generator left as it was
LeaveGlobal(prior) == prior

\* np.random.seed(42) before the grouping
SeedGlobal(prior) == SeedState(Seed)

\* the number of groups rounded up
NumGroupsCeil(n, group_size) == (n + group_size - 1) \div group_size

\* num_groups = len(filtered_df) // group_size
NumGroups(n, group_size) == n \div group_size

\* int(len(averaged_df_shuffled) * 0.03)
SampleCount(n) == (n * SamplePercent) \div 100

\* the files process_image writes under <output>/<parent>/, in order
OutputSuffixes ==
    << "_original.png", "_mask_overlay.png",
       "_average_spectra_filtered.png", "_average_spectra_std_filtered.png",
       "_selected_3_percent_spectra.png", "_averaged_spectra.csv",
       "_report.txt" >>

FirstSuffixes(k) == { OutputSuffixes[i] : i \in 1..k }

Min(a, b) == IF a <= b THEN a ELSE b

\* group_size rows starting one row after the start of the previous block
BlockSliding(df, i, group_size) ==
    SubSeq(df, i + 1, Min(i + group_size, Len(df)))

\* shuffled_df.iloc[i*group_size:(i+1)*group_size]: a slice stops at the end
Block(df, i, group_size) ==
    SubSeq(df, i * group_size + 1, Min((i + 1) * group_size, Len(df)))

process_image(img, wavelengths, group_size_arg, threshold, quality_filter_threshold, prior) ==
    LET nbands == Len(wavelengths)
        mask == Mask(img, wavelengths, threshold)
        indices == ArgWhere(mask, img.rows, img.cols)
        df == [i \in DOMAIN indices |-> img.data[indices[i][1]][indices[i][2]]]
        filtered_df == QualityFilter(df, quality_filter_threshold)
        group_size == IF group_size_arg = None
                      THEN Len(filtered_df) ELSE group_size_arg
        seeded == SeedGlobal(prior)
        failed == [error |-> "none", mask |-> mask,
                   num_pixels_mask |-> CountNonzero(mask, img.rows, img.cols),
                   df |-> df, filtered_df |-> <<>>, group_size |-> group_size,
                   shuffled_index |-> <<>>,
                   averaged_df_shuffled |-> <<>>, top_3_percent_df |-> <<>>,
                   files |-> {}, rng |-> prior]
    IN  IF Len(indices) = 0
        THEN \* np.array([]).reshape(0, -1) raises
             [failed EXCEPT !.error = "ValueError",
                            !.files = FirstSuffixes(2)]
        ELSE IF group_size = 0
        THEN \* len(filtered_df) // 0 raises, after np.random.seed(42)
             [failed EXCEPT !.error = "ZeroDivisionError",
                            !.filtered_df = filtered_df,
                            !.files = FirstSuffixes(4),
                            !.rng = seeded]
        ELSE
        LET num_groups == NumGroups(Len(filtered_df), group_size)
            drawn == Permutation(Len(filtered_df), seeded)
            shuffled_df == [i \in DOMAIN filtered_df |->
                               filtered_df[drawn.perm[i]]]
            averaged_df_shuffled ==
                [g \in 1..num_groups |->
                    ColumnMeans(Block(shuffled_df, g - 1, group_size),
                                nbands)]
            top_3_percent_count == SampleCount(Len(averaged_df_shuffled))
            picked == Permutation(Len(averaged_df_shuffled),
                                  SeedState(Seed)).perm
            top_3_percent_df ==
                [i \in 1..top_3_percent_count |->
                    averaged_df_shuffled[picked[i]]]
        IN  [failed EXCEPT !.filtered_df = filtered_df,
                           !.shuffled_index = drawn.perm,
                           !.averaged_df_shuffled = averaged_df_shuffled,
                           !.top_3_percent_df = top_3_percent_df,
                           !.files = FirstSuffixes(7),
                           !.rng = drawn.state]

\* os.path.join(output_directory, parent, f"{parent}{suffix}")
ExtractionPaths(parent, suffixes) ==
    { [dir |-> <<parent>>, file |-> <<parent, sfx>>] : sfx \in suffixes }

----------------------------------------------------------------------------
(* The driver loop of the extraction notebook: one step per file of        *)
(* os.walk(input_directory)                                                *)

\* if file.endswith('.hdr') fails: the file is passed over
ExtSkipFile ==
    /\ nb = "extraction" /\ status = "walking" /\ pos <= Len(walk)
    /\ walk[pos].ext # "hdr"
    /\ log' = Append(log, [visited |-> pos, processed |-> FALSE])
    /\ pos' = pos + 1
    /\ UNCHANGED <<nb, walk, status, written, rng, params, fnIn, fnOut>>

\* process_image(image_path, output_directory, group_size=...): an exception
\* leaves the loop, there is no handler around the call.
ExtProcessImage ==
    /\ nb = "extraction" /\ status = "walking" /\ pos <= Len(walk)
    /\ walk[pos].ext = "hdr"
    /\ LET r == process_image(walk[pos].cube, walk[pos].wavelengths,
                              params.group_size, params.threshold,
                              params.quality_filter_threshold, rng)
       IN  /\ log' = Append(log, [visited |-> pos, processed |-> TRUE,
                                  rng_before |-> rng, result |-> r])
           /\ written' = written \cup
                  { [path |-> p, by |-> pos] :
                      p \in ExtractionPaths(walk[pos].parent, r.files) }
           /\ rng' = r.rng
           /\ IF r.error = "none"
              THEN pos' = pos + 1 /\ UNCHANGED status
              ELSE status' = "aborted" /\ UNCHANGED pos
    /\ UNCHANGED <<nb, walk, params, fnIn, fnOut>>

\* os.walk is exhausted
ExtWalkEnd ==
    /\ nb = "extraction" /\ status = "walking" /\ pos > Len(walk)
    /\ status' = "done"
    /\ UNCHANGED <<nb, walk, pos, log, written, rng, params, fnIn, fnOut>>

----------------------------------------------------------------------------
(* Inputs of the extraction walk: cubes of three bands                     *)

Wavelengths3 == <<676, 751, 900>>

PHigh == <<1, 2, 1>>      \* ratio 2, mean 1.33 ticks
PHigh2 == <<2, 4, 9>>     \* ratio 2, mean 5 ticks
PHigh3 == <<2, 6, 1>>     \* ratio 3, mean 3 ticks
PLow == <<2, 1, 1>>       \* ratio 0.5
PInf == <<0, 1, 0>>       \* ratio +inf, mean 0.33 ticks
PNaN == <<0, 0, 5>>       \* ratio NaN
PGap == <<1, 3, NaN>>     \* ratio 3, NaN in a band the ratio does not read

ExtCube(rows) ==
    [rows |-> Len(rows), cols |-> Len(rows[1]), data |-> rows]

CubeEmpty == ExtCube(<< <<PLow, PNaN>> >>)

CubeDim == ExtCube(<< <<PInf>>, <<PInf>> >>)

CubeSmall == ExtCube(<< <<PHigh, PLow>>, <<PHigh2, PHigh3>> >>)

CubeBig ==
    ExtCube([r \in 1..BigSide |-> [c \in 1..BigSide |->
                <<1 + ((r + c) % 2), 4 + r, c>>]])

CubeGap == ExtCube(<< <<PGap, PHigh2>> >>)

ExtCubes == {CubeEmpty, CubeDim, CubeSmall, CubeBig, CubeGap}

\* <input>/<parent>/<parent>_calibrated.hdr and .img, as the calibrator
\* leaves them; one more sample directory "s2"
ExtFiles ==
    { [parent |-> "s1", ext |-> "hdr", wavelengths |-> Wavelengths3,
       cube |-> c] : c \in ExtCubes }
    \cup { [parent |-> "s2", ext |-> "hdr", wavelengths |-> Wavelengths3,
            cube |-> CubeSmall],
           [parent |-> "s1", ext |-> "img", wavelengths |-> Wavelengths3,
            cube |-> CubeEmpty] }

Thresholds == { [n |-> 3, d |-> 2], [n |-> 2, d |-> 1] }

QualityThresholds == { [n |-> 1, d |-> 100], [n |-> 3, d |-> 100] }

GroupSizes == {None, 1, 2, DriverGroupSize}

InitExt ==
    /\ nb = "extraction"
    /\ walk \in SeqsUpTo(ExtFiles, MaxImages)
    /\ params \in [group_size : GroupSizes, threshold : Thresholds,
                   quality_filter_threshold : QualityThresholds]
    /\ rng \in 0..1
    /\ pos = 1 /\ status = "walking" /\ log = <<>> /\ written = {}
    /\ fnIn = NoInput /\ fnOut = NotApplied

----------------------------------------------------------------------------
(* Pure functions applied to one input *)

CalCubes ==
    { [shape |-> <<1, 1, b>>, dn |-> v] :
        b \in 1..2, v \in UNION { [1..k -> 0..MaxDN] : k \in 1..2 } }

CalInputs ==
    { [fn |-> "apply_calibration", raw |-> r, white |-> w, dark |-> d] :
        r \in { c \in CalCubes : Len(c.dn) = c.shape[3] },
        w \in { c \in CalCubes : Len(c.dn) = c.shape[3] },
        d \in { c \in CalCubes : Len(c.dn) = c.shape[3] } }

Reflectances == {NaN} \cup (0..MaxRefl)

\* cubes of one row and two pixels over two bands, the second pixel fixed
MaskInputs ==
    { [fn |-> "Mask",
       img |-> ExtCube(<< << <<a, b>>, <<1, 2>> >> >>),
       wavelengths |-> w,
       threshold |-> t] :
        a \in Reflectances, b \in Reflectances,
        w \in { <<676, 751>>, <<751, 676>> }, t \in Thresholds }

\* wavelength lists of one to MaxBands bands around the two targets
BandCentres == {675, 676, 677, 750, 751, 752}

NearestBandInputs ==
    { [fn |-> "NearestBand", wavelengths |-> w, target |-> t] :
        w \in UNION { [1..k -> BandCentres] : k \in 1..MaxBands },
        t \in {Target751, Target676} }

\* spectral tables of up to MaxRows rows over two bands, filtered at every
\* quality threshold
FilterInputs ==
    { [fn |-> "QualityFilter", df |-> df] :
        df \in SeqsUpTo([1..2 -> Reflectances], MaxRows) }

InitFn ==
    /\ nb = "function"
    /\ fnIn \in CalInputs \cup MaskInputs \cup NearestBandInputs
               \cup FilterInputs
    /\ fnOut = NotApplied
    /\ walk = <<>> /\ pos = 1 /\ status = "idle" /\ log = <<>> /\ written = {}
    /\ rng = 0 /\ params = NoParams

ApplyCalibration ==
    /\ nb = "function" /\ ~ fnOut.done /\ fnIn.fn = "apply_calibration"
    /\ fnOut' = [done |-> TRUE,
                 value |-> apply_calibration(fnIn.raw, fnIn.white, fnIn.dark)]
    /\ UNCHANGED <<nb, walk, pos, status, log, written, rng, params, fnIn>>

ApplyMask ==
    /\ nb = "function" /\ ~ fnOut.done /\ fnIn.fn = "Mask"
    /\ fnOut' = [done |-> TRUE,
                 value |-> Mask(fnIn.img, fnIn.wavelengths, fnIn.threshold)]
    /\ UNCHANGED <<nb, walk, pos, status, log, written, rng, params, fnIn>>

ApplyNearestBand ==
    /\ nb = "function" /\ ~ fnOut.done /\ fnIn.fn = "NearestBand"
    /\ fnOut' = [done |-> TRUE,
                 value |-> NearestBand(fnIn.wavelengths, fnIn.target)]
    /\ UNCHANGED <<nb, walk, pos, status, log, written, rng, params, fnIn>>

ApplyQualityFilter ==
    /\ nb = "function" /\ ~ fnOut.done /\ fnIn.fn = "QualityFilter"
    /\ fnOut' = [done |-> TRUE,
                 value |-> [q \in QualityThresholds |->
                               QualityFilter(fnIn.df, q)]]
    /\ UNCHANGED <<nb, walk, pos, status, log, written, rng, params, fnIn>>

----------------------------------------------------------------------------

Init == InitCal \/ InitExt \/ InitFn

Next ==
    \/ CalSkipDirectory
    \/ CalProcessDirectory
    \/ CalWalkEnd
    \/ CalRunAgain
    \/ ExtSkipFile
    \/ ExtProcessImage
    \/ ExtWalkEnd
    \/ ApplyCalibration
    \/ ApplyMask
    \/ ApplyNearestBand
    \/ ApplyQualityFilter

Spec == Init /\ [][Next]_vars

----------------------------------------------------------------------------
(* Properties *)

ExtRuns == { i \in DOMAIN log : nb = "extraction" /\ log[i].processed }

CalVisits == { i \in DOMAIN log : nb = "calibration" }

WalkEnded == status \in {"done", "aborted"}

\* C1: for raw, white and dark cubes of one shape, every element of the
\* cube apply_calibration returns lies in the closed interval [0, 1].
C1_CalibratedWithinUnitInterval ==
    ( /\ nb = "function" /\ fnIn.fn = "apply_calibration" /\ fnOut.done
      /\ fnIn.raw.shape = fnIn.white.shape
      /\ fnIn.raw.shape = fnIn.dark.shape )
    => /\ fnOut.value.error = "none"
       /\ \A b \in DOMAIN fnOut.value.val :
              InUnitInterval(fnOut.value.val[b])

\* C2: two runs of process_image on the same cube, wavelengths and
\* parameters give the same mask, filtered table, grouped table and
\* subsample table, whatever the state of the global generator before each.
C2_SameOutputsFromAnyGeneratorState ==
    \A i \in ExtRuns : \A j \in ExtRuns :
        ( /\ walk[i].cube = walk[j].cube
          /\ walk[i].wavelengths = walk[j].wavelengths )
        => /\ log[i].result.error = log[j].result.error
           /\ log[i].result.mask = log[j].result.mask
           /\ log[i].result.filtered_df = log[j].result.filtered_df
           /\ log[i].result.averaged_df_shuffled
                  = log[j].result.averaged_df_shuffled
           /\ log[i].result.top_3_percent_df = log[j].result.top_3_percent_df

\* Two completed runs on one cube started from different generator states,
\* with several groups and a non-empty subsample.
C2_Witness ==
    \E i \in ExtRuns : \E j \in ExtRuns :
        /\ i # j
        /\ walk[i].cube = walk[j].cube
        /\ log[i].rng_before # log[j].rng_before
        /\ log[i].result.error = "none" /\ log[j].result.error = "none"
        /\ Len(log[j].result.top_3_percent_df) >= 1

\* C3: when process_image completes, the grouped table has
\* len(filtered) // group_size rows and the subsample table has
\* floor(len(grouped) * 0.03) rows.
C3_RowCounts ==
    \A i \in ExtRuns :
        log[i].result.error = "none" =>
            LET r == log[i].result
            IN  /\ r.group_size >= 1
                /\ Len(r.averaged_df_shuffled) * r.group_size
                       <= Len(r.filtered_df)
                /\ Len(r.filtered_df)
                       < (Len(r.averaged_df_shuffled) + 1) * r.group_size
                /\ Len(r.top_3_percent_df) * 100
                       <= Len(r.averaged_df_shuffled) * 3
                /\ Len(r.averaged_df_shuffled) * 3
                       < (Len(r.top_3_percent_df) + 1) * 100

\* A completed run whose grouped table is large enough for a non-empty
\* subsample.
C3_Witness ==
    \E i \in ExtRuns :
        /\ log[i].result.error = "none"
        /\ Len(log[i].result.filtered_df) >= 1
        /\ Len(log[i].result.top_3_percent_df) >= 1

\* C4: when the mask selects no pixel, process_image fails with the
\* dedicated EmptyRegionError and writes neither the CSV nor the report.
C4_EmptyMaskRaisesEmptyRegionError ==
    \A i \in ExtRuns :
        log[i].result.num_pixels_mask = 0 =>
            /\ log[i].result.error = "EmptyRegionError"
            /\ "_averaged_spectra.csv" \notin log[i].result.files
            /\ "_report.txt" \notin log[i].result.files

\* C5: when group_size exceeds the filtered row count (no group can be
\* formed), process_image fails with InsufficientDataError and writes
\* neither the CSV nor the report.
C5_ZeroGroupsRaisesInsufficientData ==
    \A i \in ExtRuns :
        ( /\ log[i].result.num_pixels_mask > 0
          /\ params.group_size # None
          /\ params.group_size > Len(log[i].result.filtered_df) )
        => /\ log[i].result.error = "InsufficientDataError"
           /\ "_averaged_spectra.csv" \notin log[i].result.files
           /\ "_report.txt" \notin log[i].result.files

\* C6: in both drivers a failure on one image does not end the batch: when
\* the walk has ended, every entry of it has been visited.
C6_FailureDoesNotAbortBatch ==
    WalkEnded => Len(log) = Len(walk)

\* C7: no output path is written by two distinct images, in the calibrator
\* or in the extractor.
C7_OutputPathsDisjoint ==
    \A w1 \in written : \A w2 \in written :
        w1.path = w2.path => w1.by = w2.by

\* C8: a directory lacking one of the three files is skipped with nothing
\* loaded, calibrated or saved for it, and the walk goes on: every later
\* directory that has the three files is calibrated.
C8_IncompleteSkippedOthersCalibrated ==
    /\ \A i \in CalVisits :
           ~ HasAllThree(walk[i]) =>
               /\ log[i].outcome = "skipped"
               /\ log[i].loaded = <<>>
               /\ \A w \in written : w.by # i
    /\ ( nb = "calibration" /\ WalkEnded ) =>
           \A i \in DOMAIN walk : \A j \in DOMAIN walk :
               ( i < j /\ ~ HasAllThree(walk[i]) /\ HasAllThree(walk[j]) )
               => ( j \in DOMAIN log /\ log[j].outcome = "calibrated" )

\* C9: calibration fails whenever the white or the dark reference, after
\* the resampling step, does not have the shape of the raw cube.
C9_ShapeMismatchRaises ==
    \A i \in CalVisits :
        ( /\ Len(log[i].loaded) = 3
          /\ \/ log[i].white_shape # log[i].raw_shape
             \/ log[i].dark_shape # log[i].raw_shape )
        => log[i].outcome = "raised"

BandAt(wavelengths, target) ==
    CHOOSE b \in DOMAIN wavelengths : wavelengths[b] = target

\* the mask as the claim C10 states it: true exactly for a finite ratio
\* above the threshold, false wherever the ratio is NaN or infinite
MaskFalseOnNonFinite(img, wavelengths, threshold, mask) ==
    \A r \in 1..img.rows : \A c \in 1..img.cols :
        LET a == img.data[r][c][BandAt(wavelengths, Target751)]
            b == img.data[r][c][BandAt(wavelengths, Target676)]
        IN  mask[r][c] <=>
                ( /\ a # NaN /\ b # NaN /\ b > 0
                  /\ a * threshold.d > threshold.n * b )

\* the mask under IEEE comparison: a NaN ratio (a NaN operand, or 0/0) is
\* false, a +inf ratio (band676 zero, band751 positive) is true
MaskIEEE(img, wavelengths, threshold, mask) ==
    \A r \in 1..img.rows : \A c \in 1..img.cols :
        LET a == img.data[r][c][BandAt(wavelengths, Target751)]
            b == img.data[r][c][BandAt(wavelengths, Target676)]
        IN  mask[r][c] <=>
                ( /\ a # NaN /\ b # NaN
                  /\ \/ b = 0 /\ a > 0
                     \/ b > 0 /\ a * threshold.d > threshold.n * b )

\* C10 as stated: the mask is true at (r, c) exactly when
\* band751 / band676 > threshold, and every pixel whose ratio is NaN or
\* infinite is false.
C10_MaskFalseForNaNAndInf ==
    /\ ( nb = "function" /\ fnIn.fn = "Mask" /\ fnOut.done ) =>
           MaskFalseOnNonFinite(fnIn.img, fnIn.wavelengths, fnIn.threshold,
                                fnOut.value)
    /\ \A i \in ExtRuns :
           MaskFalseOnNonFinite(walk[i].cube, walk[i].wavelengths,
                                params.threshold, log[i].result.mask)

\* C10 amended: the mask is true at (r, c) exactly when
\* band751 / band676 > threshold in IEEE arithmetic: a NaN ratio is false,
\* but an infinite ratio (band676 = 0 < band751) is true.
C10_MaskIEEE ==
    /\ ( nb = "function" /\ fnIn.fn = "Mask" /\ fnOut.done ) =>
           MaskIEEE(fnIn.img, fnIn.wavelengths, fnIn.threshold, fnOut.value)
    /\ \A i \in ExtRuns :
           MaskIEEE(walk[i].cube, walk[i].wavelengths, params.threshold,
                    log[i].result.mask)

\* A mask computed for a pixel of infinite ratio, which it selects.
C10_Witness ==
    /\ nb = "function" /\ fnIn.fn = "Mask" /\ fnOut.done
    /\ LET px == fnIn.img.data[1][1]
       IN  /\ px[BandAt(fnIn.wavelengths, Target676)] = 0
           /\ px[BandAt(fnIn.wavelengths, Target751)] > 0
    /\ fnOut.value[1][1] = TRUE

\* index i of distances is a minimum, and the lowest index that is one
IsLowestMinimum(distances, i) ==
    /\ i \in DOMAIN distances
    /\ \A j \in DOMAIN distances : distances[i] <= distances[j]
    /\ \A j \in 1..(i - 1) : distances[j] > distances[i]

\* C11: for every non-empty wavelength sequence and each target (751 and
\* 676), the selected band index minimises |w - target| over the sequence,
\* and among equally distant bands it is the lowest index.
C11_NearestBandLowestIndex ==
    /\ ( nb = "function" /\ fnIn.fn = "NearestBand" /\ fnOut.done ) =>
           IsLowestMinimum(
               [i \in DOMAIN fnIn.wavelengths |->
                    Abs(fnIn.wavelengths[i] - fnIn.target)],
               fnOut.value)
    /\ \A i \in ExtRuns : \A t \in {Target751, Target676} :
           IsLowestMinimum(
               [b \in DOMAIN walk[i].wavelengths |->
                    Abs(walk[i].wavelengths[b] - t)],
               NearestBand(walk[i].wavelengths, t))

\* The selection applied to <<675, 677, 676>>-like ties: two bands at the
\* same distance from 676, the first of them selected.
C11_Witness ==
    /\ nb = "function" /\ fnIn.fn = "NearestBand" /\ fnOut.done
    /\ fnIn.target = Target676
    /\ fnIn.wavelengths = <<675, 677>>
    /\ fnOut.value = 1

\* the mean of the values of a row that are not NaN is defined and >= q
\* (a reflectance v stands for v / Ticks)
MeanAtLeast(row, q) ==
    LET present == { b \in DOMAIN row : row[b] # NaN }
        sum[b \in 0..Len(row)] ==
            IF b = 0 THEN 0
            ELSE sum[b - 1] + (IF row[b] = NaN THEN 0 ELSE row[b])
    IN  /\ present # {}
        /\ sum[Len(row)] * q.d >= q.n * Cardinality(present) * Ticks

\* out holds exactly the rows of df whose mean is >= q, in the order of df
IsFilteredBy(df, q, out) ==
    LET kept == { i \in DOMAIN df : MeanAtLeast(df[i], q) }
        rank == [i \in DOMAIN df |-> Cardinality({ j \in kept : j <= i })]
    IN  /\ Len(out) = Cardinality(kept)
        /\ \A i \in kept : out[rank[i]] = df[i]

\* C12: the filtered table consists of exactly the rows of the spectral
\* table whose mean across the bands is >= quality_filter_threshold, in the
\* same relative order and re-indexed from the first row; raising the
\* threshold never increases the number of filtered rows.  The mean is the
\* one the table computes: over the values of the row that are not NaN.
C12_FilterKeepsRowsAtOrAboveThreshold ==
    /\ ( nb = "function" /\ fnIn.fn = "QualityFilter" /\ fnOut.done ) =>
           /\ \A q \in QualityThresholds :
                  IsFilteredBy(fnIn.df, q, fnOut.value[q])
           /\ \A q1, q2 \in QualityThresholds :
                  q1.n * q2.d <= q2.n * q1.d =>
                      Len(fnOut.value[q2]) <= Len(fnOut.value[q1])
    /\ \A i \in ExtRuns :
           log[i].result.error \in {"none", "ZeroDivisionError"} =>
               IsFilteredBy(log[i].result.df,
                            params.quality_filter_threshold,
                            log[i].result.filtered_df)

\* A table of two different rows: the lower threshold keeps both in their
\* order, the higher one keeps only the second.
C12_Witness ==
    /\ nb = "function" /\ fnIn.fn = "QualityFilter" /\ fnOut.done
    /\ Len(fnIn.df) = 2
    /\ fnOut.value[[n |-> 1, d |-> 100]] = fnIn.df
    /\ fnOut.value[[n |-> 3, d |-> 100]] = << fnIn.df[2] >>
    /\ fnIn.df[1] # fnIn.df[2]

\* <<c_0, .., c_n>>: c_k is the number of true pixels among the first k
\* pixels of mask in row-major order
RECURSIVE TruesBefore(_, _, _)
TruesBefore(mask, cols, k) ==
    IF k = 0 THEN <<0>>
    ELSE LET counts == TruesBefore(mask, cols, k - 1)
         IN  Append(counts,
                    counts[k] + (IF mask[((k - 1) \div cols) + 1]
                                        [((k - 1) % cols) + 1]
                                 THEN 1 ELSE 0))

\* df holds, for every true pixel of mask and for no other, the whole
\* spectrum of that pixel, the pixels taken row by row
IsRowMajorTable(img, nbands, mask, df) ==
    LET n == img.rows * img.cols
        row(k) == ((k - 1) \div img.cols) + 1
        col(k) == ((k - 1) % img.cols) + 1
        before == TruesBefore(mask, img.cols, n)
    IN  /\ Len(df) = before[n + 1]
        /\ \A k \in 1..n :
               mask[row(k)][col(k)] =>
                   /\ df[before[k + 1]] = img.data[row(k)][col(k)]
                   /\ Len(df[before[k + 1]]) = nbands

\* C13: the spectral table has one row per true pixel of the mask, in
\* row-major pixel order, each row the full band vector of its pixel; the
\* number of rows equals the number of true mask pixels that the report
\* compares it with.
C13_SpectralTableRowPerMaskPixel ==
    \A i \in ExtRuns :
        log[i].result.error # "ValueError" =>
            /\ IsRowMajorTable(walk[i].cube, Len(walk[i].wavelengths),
                               log[i].result.mask, log[i].result.df)
            /\ Len(log[i].result.df) = log[i].result.num_pixels_mask

\* A completed run on the large cube: every pixel of its first two rows is
\* in the mask, and the row after the last pixel of the first image row is
\* the first pixel of the second image row.
C13_Witness ==
    \E i \in ExtRuns :
        /\ log[i].result.error = "none"
        /\ walk[i].cube = CubeBig
        /\ \A c \in 1..BigSide : /\ log[i].result.mask[1][c]
                                 /\ log[i].result.mask[2][c]
        /\ log[i].result.df[BigSide + 1] = CubeBig.data[2][1]
        /\ log[i].result.df[BigSide + 1] # CubeBig.data[1][2]

\* avg is the mean of column b over the rows of df whose indices are listed
\* in members, a NaN cell left out (NaN when every cell is NaN)
IsColumnMean(df, members, b, avg) ==
    LET sum[j \in 0..Len(members)] ==
            IF j = 0 THEN 0
            ELSE sum[j - 1] + (IF df[members[j]][b] # NaN
                               THEN df[members[j]][b] ELSE 0)
        cnt == Cardinality({ j \in DOMAIN members : df[members[j]][b] # NaN })
    IN  IF cnt = 0 THEN avg.k = "nan"
        ELSE avg.k = "fin" /\ avg.n * cnt = sum[Len(members)] * avg.d

\* indices of the filtered rows of block g of the permutation, in its order
GroupRows(r, g) ==
    [j \in 1..r.group_size |-> r.shuffled_index[(g - 1) * r.group_size + j]]

\* indices of the filtered rows that go into grouped row g
GroupMembers(r, g) ==
    { r.shuffled_index[k] :
        k \in ((g - 1) * r.group_size + 1)..(g * r.group_size) }

\* C14: the grouping partitions one permutation of the filtered rows into
\* consecutive blocks of exactly group_size rows: every grouped row is the
\* per-column mean of exactly group_size filtered rows, no filtered row
\* contributes to more than one grouped row, and exactly
\* len(filtered) mod group_size rows contribute to none.  The mean of a
\* column is taken over its cells that are not NaN.  (Blocks of group_size
\* rows each that cover as many rows as they hold together share no row.)
C14_GroupsPartitionOnePermutation ==
    \A i \in ExtRuns :
        log[i].result.error = "none" =>
            LET r == log[i].result
                n == Len(r.filtered_df)
                groups == DOMAIN r.averaged_df_shuffled
                used == UNION { GroupMembers(r, g) : g \in groups }
            IN  /\ DOMAIN r.shuffled_index = 1..n
                /\ { r.shuffled_index[k] : k \in 1..n } = 1..n
                /\ \A g \in groups :
                       /\ g * r.group_size <= n
                       /\ Cardinality(GroupMembers(r, g)) = r.group_size
                       /\ \A b \in DOMAIN walk[i].wavelengths :
                              IsColumnMean(r.filtered_df, GroupRows(r, g),
                                           b, r.averaged_df_shuffled[g][b])
                /\ Cardinality(used) = Cardinality(groups) * r.group_size
                /\ Cardinality((1..n) \ used) = n % r.group_size

\* A completed run with blocks of 20 rows, drawn in an order other than the
\* order of the filtered table, and rows left over after the last block.
C14_Witness ==
    \E i \in ExtRuns :
        LET r == log[i].result
        IN  /\ r.error = "none"
            /\ r.group_size = DriverGroupSize
            /\ Len(r.averaged_df_shuffled) >= 1
            /\ Len(r.filtered_df) % r.group_size > 0
            /\ \E k \in DOMAIN r.shuffled_index : r.shuffled_index[k] # k

\* C15: when group_size is not given it is set to the number of filtered
\* rows and the grouped table has exactly one row, the plain per-column
\* average of all filtered rows; this for every filtered table, one with
\* zero rows after the quality filter included.
C15_DefaultGroupSizeGivesOneRow ==
    \A i \in ExtRuns :
        ( params.group_size = None /\ log[i].result.error # "ValueError" ) =>
            LET r == log[i].result
                n == Len(r.filtered_df)
            IN  /\ r.error = "none"
                /\ r.group_size = n
                /\ Len(r.averaged_df_shuffled) = 1
                /\ \A b \in DOMAIN walk[i].wavelengths :
                       IsColumnMean(r.filtered_df, [k \in 1..n |-> k], b,
                                    r.averaged_df_shuffled[1][b])

\* a directory that holds nothing but files save_hyperspectral_image wrote
IsOutputDirectory(files) ==
    /\ files # <<>>
    /\ \A k \in DOMAIN files :
           files[k].stem \in { CalibratedStem(stem) : stem \in Stems }

\* the raw images a run calibrated, with the references it used and the
\* name it saved under, in the order of the run
Calibrations(l) ==
    LET done == SelectSeq(l, LAMBDA e : e.outcome = "calibrated")
    IN  [k \in DOMAIN done |->
            [loaded |-> done[k].loaded, image_name |-> done[k].image_name]]

\* the paths a run called save_hyperspectral_image for
SavePaths(l) ==
    UNION { CalibratedPaths(l[i].image_name) :
              i \in { j \in DOMAIN l : l[j].outcome = "calibrated" } }

\* C16: a second run of process_directory on a root where the first run
\* wrote its outputs under <root>/calibrated/ never takes a calibrated cube
\* written before as raw input: the second walk visits the calibrated
\* output directories, finds the three files in none of them, loads nothing
\* from them, calibrates exactly the raw images the first run calibrated and
\* saves under exactly the same output paths.
C16_SecondRunSkipsCalibratedOutputs ==
    nb = "recalibration" =>
        /\ \A i \in DOMAIN walk :
               IsOutputDirectory(walk[i]) => ~ HasAllThree(walk[i])
        /\ \A i \in DOMAIN log :
               /\ IsOutputDirectory(walk[i]) => log[i].outcome = "skipped"
               /\ \A k \in DOMAIN log[i].loaded :
                      ~ IsOutputDirectory(<< log[i].loaded[k] >>)
        /\ { w.path : w \in written } \subseteq SavePaths(params.first_log)
        /\ WalkEnded =>
               /\ Calibrations(log) = Calibrations(params.first_log)
               /\ SavePaths(log) = SavePaths(params.first_log)

\* A completed second run: it went through a directory of calibrated output
\* that the first run had written, and calibrated and saved a raw image
\* again.
C16_Witness ==
    /\ nb = "recalibration" /\ status = "done"
    /\ params.first_written # {}
    /\ \E i \in DOMAIN log : IsOutputDirectory(walk[i])
    /\ \E i \in DOMAIN log : log[i].outcome = "calibrated" /\ log[i].saved

====
